---- MODULE Spec2Model ----
(***************************************************************************)
(* Model of the conversion task runner of mlx_quantize_gui_v2.py:          *)
(* MLXQuantizeApp._run_conversion (the Convert button), its nested         *)
(* worker() thread, MLXQuantizeApp._stop_conversion (the Stop button) and  *)
(* the external process they drive.                                        *)
(*                                                                         *)
(* The foreground (Tk main loop) runs one handler at a time; fg.pc is its  *)
(* position.  _run_conversion runs with no worker alive on every path that *)
(* changes state, so it is one step up to a modal messagebox;              *)
(* _stop_conversion reads self.current_process three times while the       *)
(* worker may write it, so each read is a step.  Each worker thread is a   *)
(* position in threads[t]; each statement of worker() that touches state   *)
(* shared with the foreground is a step.                                   *)
(*                                                                         *)
(* log_text is the sequence of _log calls since the log was last cleared   *)
(* (the timestamp is left out); each entry records the level, the message  *)
(* and the execution context ("fg" or "bg") whose code made the widget     *)
(* call.  The model follows the tasks whose entries are in the log: Clear  *)
(* Log, clicked between conversions, frees their ids, and a process that   *)
(* outlived its worker is from then on only the flag `abandoned`.          *)
(*                                                                         *)
(* _detect_source_type and _generate_output_path are operators over        *)
(* character sequences and the disk; PathSpec calls them on every disk of  *)
(* a few existing paths.  The task runner's Spec leaves disk and call      *)
(* alone: the output path has no part in what the runner does.             *)
(***************************************************************************)
EXTENDS Integers, Sequences, FiniteSets, TLC

\* Number of Convert submissions (conversions started, dry runs and NeMo
\* previews together) whose entries the log holds at one time; also the number
\* of tasks the model follows at one time.
MaxSubmits == 1
\* Lines one external process may emit.
MaxLines == 1
\* Number of "Stopping conversion..." entries the log holds at one time.
MaxStops == 1
\* Number of paths that exist on the disk when a path function is called; the
\* highest version suffix (_vK) an existing path carries.
MaxEntries == 2

VARIABLES
    worker_thread,    \* self.worker_thread: 0 (None) or the id of the last thread created
    current_process,  \* self.current_process: 0 (None) or the id of a process
    convert_btn,      \* state of self.convert_btn
    stop_btn,         \* state of self.stop_btn
    progress,         \* self.progress: "stopped" or "running"
    log_text,         \* the _log calls so far
    threads,          \* position of each worker thread
    procs,            \* the external processes
    fg,               \* the foreground: handler position, open messagebox, source read
    base_dir,         \* whether the base output directory exists
    abandoned,        \* whether a process of a task cleared from the log still runs
    disk,             \* the filesystem: the kind ("file" or "dir") of each existing path
    call              \* the last call of _detect_source_type or _generate_output_path

vars == <<worker_thread, current_process, convert_btn, stop_btn, progress,
          log_text, threads, procs, fg, base_dir, abandoned, disk, call>>

Tasks == 1..MaxSubmits

NORMAL == "normal"
DISABLED == "disabled"

\* Exit codes of the external tool; a process ended by SIGTERM reports -15.
ExitCodes == {0, 17}
TermCodes == {0, 17, -15}

----------------------------------------------------------------------------
\* Source strings, as sequences of characters.

NemoExt == <<".", "n", "e", "m", "o">>

Sources ==
    { <<>>,
      <<" ">>,
      <<"o", "/", "m">>,
      <<"a", ".", "n", "e", "m", "o">>,
      <<" ", "a", ".", "n", "e", "m", "o", " ">> }

IsSpace(c) == c = " "

RECURSIVE LStrip(_)
LStrip(s) ==
    IF s = <<>> THEN <<>>
    ELSE IF IsSpace(Head(s)) THEN LStrip(Tail(s)) ELSE s

RECURSIVE RStrip(_)
RStrip(s) ==
    IF s = <<>> THEN <<>>
    ELSE IF IsSpace(s[Len(s)]) THEN RStrip(SubSeq(s, 1, Len(s) - 1)) ELSE s

\* str.strip()
Strip(s) == RStrip(LStrip(s))

\* str.endswith(suffix)
EndsWith(s, suffix) ==
    /\ Len(s) >= Len(suffix)
    /\ SubSeq(s, Len(s) - Len(suffix) + 1, Len(s)) = suffix

----------------------------------------------------------------------------
\* The command builder: _detect_source_type and _generate_output_path, as
\* functions of their arguments and of the disk.

Separator == "/"
Extensions ==
    { <<".", "s", "a", "f", "e", "t", "e", "n", "s", "o", "r", "s">>, NemoExt }

\* `"/" in path`
HasSeparator(s) == \E i \in 1..Len(s) : s[i] = Separator

\* str.replace("/", "_")
RECURSIVE Replace(_)
Replace(s) ==
    IF s = <<>> THEN <<>>
    ELSE <<(IF Head(s) = Separator THEN "_" ELSE Head(s))>> \o Replace(Tail(s))

\* The parts of a pure path: the segments between separators, the empty ones
\* and "." left out.
RECURSIVE Parts(_, _)
Parts(s, seg) ==
    LET done == IF seg = <<>> \/ seg = <<".">> THEN <<>> ELSE <<seg>>
    IN  IF s = <<>> THEN done
        ELSE IF Head(s) = Separator THEN done \o Parts(Tail(s), <<>>)
        ELSE Parts(Tail(s), Append(seg, Head(s)))

\* Path(p).name
Name(p) ==
    LET parts == Parts(p, <<>>)
    IN  IF parts = <<>> THEN <<>> ELSE parts[Len(parts)]

\* str.rfind("."), counted from 1; 0 when there is none.
RFindDot(s) ==
    LET dots == {i \in 1..Len(s) : s[i] = "."}
    IN  IF dots = {} THEN 0 ELSE CHOOSE i \in dots : \A j \in dots : j <= i

\* Path(p).stem: the name without its last suffix.
Stem(p) ==
    LET name == Name(p)
        i == RFindDot(name)
    IN  IF 1 < i /\ i < Len(name) THEN SubSeq(name, 1, i - 1) ELSE name

\* os.path.join(base, name)
Join(base, name) ==
    IF name # <<>> /\ Head(name) = Separator THEN name
    ELSE IF base = <<>> \/ base[Len(base)] = Separator THEN base \o name
    ELSE base \o <<Separator>> \o name

Digits == <<"0", "1", "2", "3", "4", "5", "6", "7", "8", "9">>

\* str(n) for n >= 0
RECURSIVE Str(_)
Str(n) ==
    IF n < 10 THEN <<Digits[n + 1]>> ELSE Str(n \div 10) \o <<Digits[(n % 10) + 1]>>

\* f"{path}_v{counter}"
Versioned(path, counter) == path \o <<"_", "v">> \o Str(counter)

\* datetime.now().strftime(...), as one fixed stamp
Timestamp == <<"T">>

\* A disk on which nothing exists, and no call made.
NoDisk == [p \in {} |-> "file"]
NoCall == [fn |-> "none"]

\* os.path.exists(p) and os.path.isdir(p)
exists(p) == p \in DOMAIN disk
isdir(p) == exists(p) /\ disk[p] = "dir"

\* _detect_source_type with the test for a directory left out.
_detect_source_type_NoDirTest(path) ==
    LET p == Strip(path)
    IN  IF HasSeparator(p) /\ ~exists(p) THEN "hf"
        ELSE IF exists(p) /\ \E e \in Extensions : EndsWith(p, e) THEN "file"
        ELSE "hf"

\* Lines 401-417.
_detect_source_type(path) ==
    LET p == Strip(path)
    IN  IF HasSeparator(p) /\ ~exists(p) THEN "hf"
        ELSE IF exists(p) /\ isdir(p) THEN "local"
        ELSE IF exists(p) /\ \E e \in Extensions : EndsWith(p, e) THEN "file"
        ELSE "hf"

\* The loop of lines 439-443 with each suffix appended to the path of the
\* previous round instead of the original one.
RECURSIVE Unique_Stacked(_, _, _)
Unique_Stacked(output_path, original_path, counter) ==
    IF exists(output_path)
      THEN Unique_Stacked(Versioned(output_path, counter), original_path, counter + 1)
      ELSE output_path

\* Lines 439-443: the loop that ends at the first path that does not exist.
RECURSIVE Unique(_, _, _)
Unique(output_path, original_path, counter) ==
    IF exists(output_path)
      THEN Unique(Versioned(original_path, counter), original_path, counter + 1)
      ELSE output_path

\* Lines 423-429: the model name.
model_name(source_path, source_type) ==
    IF source_type = "hf" THEN Replace(source_path)
    ELSE IF source_type = "file" THEN Stem(source_path)
    ELSE Name(source_path)

\* Lines 419-445, with self.output_base and self.auto_timestamp as arguments.
_generate_output_path(base, source_path, source_type, auto_timestamp) ==
    LET name == model_name(source_path, source_type)
        stamped == IF auto_timestamp THEN name \o <<"_">> \o Timestamp ELSE name
        output_path == Join(base, stamped)
    IN  Unique(output_path, output_path, 1)

\* The arguments the functions are called with.
Bases == { <<"b">>, <<"b", "/">> }
Weights == <<"w", ".", "s", "a", "f", "e", "t", "e", "n", "s", "o", "r", "s">>
GenerateArgs ==
    { << <<"o", "/", "m">>, "hf" >>,
      << <<"p", "/", "d">>, "local" >>,
      << <<"p", "/">> \o Weights, "file" >> }
DetectArgs ==
    { <<"o", "/", "m">>, <<"d">>, <<" ", "d", " ">>, <<"x">>, Weights }

\* The paths that may exist: the sources, and each output candidate with its
\* numbered versions.
DetectPaths == { <<"o", "/", "m">>, <<"d">>, Weights }
OutPaths ==
    UNION { LET c == Join(<<"b">>, model_name(a[1], a[2]))
            IN  {c} \cup {Versioned(c, k) : k \in 1..MaxEntries} : a \in GenerateArgs }

----------------------------------------------------------------------------
\* The log.

Sep == <<"sep", 0, 0>>

\* self._log(message, level), called from execution context ctx.
_log(lg, message, level, ctx) ==
    Append(lg, [level |-> level, msg |-> message, ctx |-> ctx])

RECURSIVE LogAll(_, _, _)
LogAll(lg, messages, ctx) ==
    IF messages = <<>> THEN lg
    ELSE LogAll(_log(lg, Head(messages), "INFO", ctx), Tail(messages), ctx)

Count(lg, kind) == Cardinality({i \in DOMAIN lg : lg[i].msg[1] = kind})

\* Submissions that wrote to the log.
LogSubmits == Count(log_text, "Starting") + Count(log_text, "NeMo title")

\* A task id that names no process.
NoProcess == [st |-> "none", emitted |-> 0, read |-> 0, code |-> 0, term |-> FALSE]

----------------------------------------------------------------------------
\* The application after construction.
InitApp ==
    /\ worker_thread = 0
    /\ current_process = 0
    /\ convert_btn = NORMAL
    /\ stop_btn = DISABLED
    /\ progress = "stopped"
    /\ log_text = <<>>
    /\ threads = [t \in Tasks |-> "none"]
    /\ procs = [p \in Tasks |-> NoProcess]
    /\ fg = [pc |-> "idle", dialog |-> "none", src |-> <<>>]
    /\ base_dir = FALSE
    /\ abandoned = FALSE

\* No path the functions ask about exists and no call was made.
Init ==
    /\ InitApp
    /\ disk = NoDisk
    /\ call = NoCall

----------------------------------------------------------------------------
\* The command builder called on its own, for every disk.

\* A disk with at most MaxEntries paths, each a file or a directory.
PathInit ==
    /\ InitApp
    /\ \E E \in SUBSET (DetectPaths \cup OutPaths) :
          /\ Cardinality(E) <= MaxEntries
          /\ disk \in [E -> {"file", "dir"}]
    /\ call = NoCall

PathApp == <<worker_thread, current_process, convert_btn, stop_btn, progress,
             log_text, threads, procs, fg, base_dir, abandoned>>

\* Lines 482 and 528: the source is classified.
DetectCall ==
    /\ \E path \in DetectArgs :
          call' = [fn |-> "detect", path |-> path, ret |-> _detect_source_type(path)]
    /\ UNCHANGED <<PathApp, disk>>

\* Lines 483 and 531: the output path is derived.
GenerateCall ==
    /\ \E base \in Bases, a \in GenerateArgs, auto_timestamp \in BOOLEAN :
          call' = [fn |-> "generate", base |-> base, source_path |-> a[1],
                   source_type |-> a[2], auto_timestamp |-> auto_timestamp,
                   ret |-> _generate_output_path(base, a[1], a[2], auto_timestamp)]
    /\ UNCHANGED <<PathApp, disk>>

PathNext == DetectCall \/ GenerateCall

PathSpec == PathInit /\ [][PathNext]_vars

----------------------------------------------------------------------------
\* The foreground: the Convert button.

\* threading.Thread.is_alive(): started and its run() has not returned.
is_alive(t) == threads[t] \notin {"none", "dead"}

\* AlreadyRunning deciding by the process reference instead of the thread.
AlreadyRunning_ByProcess == current_process # 0

\* Line 508: self.worker_thread and self.worker_thread.is_alive()
AlreadyRunning == worker_thread # 0 /\ is_alive(worker_thread)

\* IsNemo comparing the whole source with the extension.
IsNemo_Equal(source) == source = NemoExt

\* Lines 486 and 520: source.endswith('.nemo')
IsNemo(source) == EndsWith(source, NemoExt)

\* A modal messagebox: the handler is suspended until it is dismissed.
messagebox(title, src) == fg' = [pc |-> "dialog", dialog |-> title, src |-> src]

\* The thread object created at line 599: the first unused id.
NewThread == CHOOSE t \in Tasks : threads[t] = "none" /\ \A u \in 1..(t - 1) : threads[u] # "none"

\* The processes of the tasks in the log that are still running.
LiveProcs == {p \in Tasks : procs[p].st \in {"running", "closed"}}

\* Lines 554-600: update the UI, create the worker thread and start it.
StartWorker(lg) ==
    /\ convert_btn' = DISABLED
    /\ stop_btn' = NORMAL
    /\ progress' = "running"
    /\ threads' = [threads EXCEPT ![NewThread] = "Popen"]
    /\ worker_thread' = NewThread
    /\ log_text' = lg
    /\ UNCHANGED <<current_process, procs, fg, abandoned, disk, call>>

\* DryRun without its return at line 552: the submission goes on to start the worker.
DryRun_NoReturn(lg) ==
    StartWorker(LogAll(lg, << <<"DRY RUN", 0, 0>>, Sep >>, "fg"))

\* Lines 549-552: the dry run logs and returns.
DryRun(lg) ==
    /\ log_text' = LogAll(lg, << <<"DRY RUN", 0, 0>>, Sep >>, "fg")
    /\ UNCHANGED <<worker_thread, current_process, convert_btn, stop_btn, progress,
                   threads, procs, fg, abandoned, disk, call>>

\* Lines 505-600.  src is self.source_path.get(), dry_run is self.dry_run.get(),
\* makedirs_ok is whether os.makedirs(base_dir, exist_ok=True) returns.
_run_conversion(src, dry_run, makedirs_ok) ==
    LET source == Strip(src)
        rest == <<worker_thread, current_process, convert_btn, stop_btn, progress,
                  log_text, threads, procs, base_dir, abandoned, disk, call>>
    IN  IF AlreadyRunning
          THEN messagebox("Already Running", <<>>) /\ UNCHANGED rest
        ELSE IF source = <<>>
          THEN messagebox("No Source", <<>>) /\ UNCHANGED rest
        ELSE IF IsNemo(source)
          THEN /\ LogSubmits < MaxSubmits
               /\ messagebox("NeMo Files", src)
               /\ UNCHANGED rest
        ELSE IF ~makedirs_ok
          THEN messagebox("Base Directory Error", <<>>) /\ UNCHANGED rest
        ELSE /\ LogSubmits < MaxSubmits
             /\ base_dir' = TRUE
             /\ LET lg == LogAll(log_text,
                                 << Sep, <<"Starting", 0, 0>>, <<"Command", 0, 0>> >>, "fg")
                IN  IF dry_run THEN DryRun(lg) ELSE StartWorker(lg)

\* Lines 475-503, as called from line 524 with the source src.
_preview_command(src) ==
    LET source == Strip(src)
        rest == <<worker_thread, current_process, convert_btn, stop_btn, progress,
                  threads, procs, base_dir, abandoned, disk, call>>
    IN  IF source = <<>>
          THEN messagebox("No Source", <<>>) /\ UNCHANGED log_text /\ UNCHANGED rest
        ELSE IF IsNemo(source)
          THEN /\ log_text' = LogAll(log_text,
                      << Sep, <<"NeMo title", 0, 0>>, <<"NeMo", 0, 1>>, <<"NeMo", 0, 2>>,
                         <<"NeMo", 0, 3>>, Sep >>, "fg")
               /\ fg' = [pc |-> "idle", dialog |-> "none", src |-> <<>>]
               /\ UNCHANGED rest
        ELSE /\ log_text' = LogAll(log_text,
                      << Sep, <<"COMMAND PREVIEW", 0, 0>>, <<"Source Type", 0, 0>>,
                         <<"Output Path", 0, 0>>, <<"Command:", 0, 0>>,
                         <<"Command", 0, 0>>, Sep >>, "fg")
             /\ fg' = [pc |-> "idle", dialog |-> "none", src |-> <<>>]
             /\ UNCHANGED rest

\* The user clicks Convert; Tk runs the command of an enabled button only.
\* makedirs succeeds on a directory that exists (exist_ok=True).
ClickConvert ==
    /\ fg.pc = "idle"
    /\ convert_btn = NORMAL
    /\ \E src \in Sources, dry_run \in BOOLEAN,
          makedirs_ok \in (IF base_dir THEN {TRUE} ELSE BOOLEAN) :
            _run_conversion(src, dry_run, makedirs_ok)

\* The user dismisses the messagebox and the suspended handler goes on:
\* after the "NeMo Files" box, line 524 calls _preview_command; the others return.
DismissDialog ==
    /\ fg.pc = "dialog"
    /\ IF fg.dialog = "NeMo Files"
         THEN _preview_command(fg.src)
         ELSE /\ fg' = [pc |-> "idle", dialog |-> "none", src |-> <<>>]
              /\ UNCHANGED <<worker_thread, current_process, convert_btn, stop_btn,
                             progress, log_text, threads, procs, base_dir, abandoned, disk, call>>

\* Lines 388-390: the user clicks Clear Log, here only between conversions.
\* The log then holds no entry of the finished tasks and the model stops
\* following them: their ids are free again, and of their processes it keeps
\* only whether one still runs, with no worker reading it.
_clear_log ==
    /\ fg.pc = "idle"
    /\ \A t \in Tasks : threads[t] \in {"none", "dead"}
    /\ log_text # <<>>
    /\ log_text' = <<>>
    /\ threads' = [t \in Tasks |-> "none"]
    /\ procs' = [p \in Tasks |-> NoProcess]
    /\ abandoned' = (abandoned \/ LiveProcs # {})
    /\ UNCHANGED <<worker_thread, current_process, convert_btn, stop_btn, progress,
                   fg, base_dir, disk, call>>

----------------------------------------------------------------------------
\* The foreground: the Stop button (lines 602-606).

StopAt(pc) == fg' = [fg EXCEPT !.pc = pc]

\* terminate sending no signal.
terminate_NoSignal(p) == UNCHANGED procs

\* Popen.terminate(): SIGTERM, unless the process has already been found exited.
terminate(p) ==
    procs' = [procs EXCEPT ![p].term = @ \/ procs[p].st # "exited"]

\* Line 604, first operand: self.current_process
_stop_conversion ==
    /\ IF current_process = 0 THEN StopAt("stop_return") ELSE StopAt("stop_poll")
    /\ UNCHANGED <<worker_thread, current_process, convert_btn, stop_btn, progress,
                   log_text, threads, procs, base_dir, abandoned, disk, call>>

\* The user clicks Stop; Tk runs the command of an enabled button only.
ClickStop ==
    /\ fg.pc = "idle"
    /\ stop_btn = NORMAL
    /\ Count(log_text, "Stopping") < MaxStops
    /\ _stop_conversion

\* Line 604, second operand: self.current_process.poll() is None
stop_poll ==
    /\ fg.pc = "stop_poll"
    /\ IF current_process = 0 THEN StopAt("stop_raise")
       ELSE IF procs[current_process].st = "exited" THEN StopAt("stop_return")
       ELSE StopAt("stop_terminate")
    /\ UNCHANGED <<worker_thread, current_process, convert_btn, stop_btn, progress,
                   log_text, threads, procs, base_dir, abandoned, disk, call>>

\* Line 605: self.current_process.terminate()
stop_terminate ==
    /\ fg.pc = "stop_terminate"
    /\ IF current_process = 0
         THEN StopAt("stop_raise") /\ UNCHANGED procs
         ELSE StopAt("stop_log") /\ terminate(current_process)
    /\ UNCHANGED <<worker_thread, current_process, convert_btn, stop_btn, progress,
                   log_text, threads, base_dir, abandoned, disk, call>>

\* Line 606: self._log("Stopping conversion...", "WARNING")
stop_log ==
    /\ fg.pc = "stop_log"
    /\ log_text' = _log(log_text, <<"Stopping", 0, 0>>, "WARNING", "fg")
    /\ StopAt("idle")
    /\ UNCHANGED <<worker_thread, current_process, convert_btn, stop_btn, progress,
                   threads, procs, base_dir, abandoned, disk, call>>

\* The handler returns, or its AttributeError ('NoneType' has no attribute) ends it.
stop_end ==
    /\ fg.pc \in {"stop_return", "stop_raise"}
    /\ StopAt("idle")
    /\ UNCHANGED <<worker_thread, current_process, convert_btn, stop_btn, progress,
                   log_text, threads, procs, base_dir, abandoned, disk, call>>

----------------------------------------------------------------------------
\* The worker thread t (lines 565-597).

Goto(t, pc) == threads' = [threads EXCEPT ![t] = pc]

\* except swallowing the exception without a log entry.
except_Silent(t) ==
    /\ UNCHANGED log_text
    /\ Goto(t, "finally_progress")

\* Lines 589-590: except Exception as e: self._log(f"ERROR: {e}", "ERROR")
except(t) ==
    /\ log_text' = _log(log_text, <<"exception", t, 0>>, "ERROR", "bg")
    /\ Goto(t, "finally_progress")

\* Line 567 (right-hand side): subprocess.Popen(...) creates the process or raises.
worker_Popen(t) ==
    /\ threads[t] = "Popen"
    /\ \/ /\ procs' = [procs EXCEPT ![t].st = "running"]
          /\ Goto(t, "store")
          /\ UNCHANGED log_text
       \/ /\ except(t)
          /\ UNCHANGED procs
    /\ UNCHANGED <<worker_thread, current_process, convert_btn, stop_btn, progress,
                   fg, base_dir, abandoned, disk, call>>

\* Line 567 (assignment) and line 578 (the iterator over the new process's stdout).
worker_store(t) ==
    /\ threads[t] = "store"
    /\ current_process' = t
    /\ Goto(t, "read")
    /\ UNCHANGED <<worker_thread, convert_btn, stop_btn, progress, log_text, procs,
                   fg, base_dir, abandoned, disk, call>>

\* Lines 578-579: the next line is logged, or decoding it raises, or the stream ended.
worker_read(t) ==
    /\ threads[t] = "read"
    /\ \/ /\ procs[t].read < procs[t].emitted
          /\ procs' = [procs EXCEPT ![t].read = @ + 1]
          /\ \/ /\ log_text' = _log(log_text, <<"line", t, procs[t].read + 1>>, "INFO", "bg")
                /\ Goto(t, "read")
             \/ except(t)
       \/ /\ procs[t].read = procs[t].emitted
          /\ procs[t].st \in {"closed", "exited"}
          /\ Goto(t, "wait")
          /\ UNCHANGED <<log_text, procs>>
    /\ UNCHANGED <<worker_thread, current_process, convert_btn, stop_btn, progress,
                   fg, base_dir, abandoned, disk, call>>

\* report taking every return code up to 0 (a signal's negative code too) as success.
report_SignalIsSuccess(t, rc) ==
    IF rc <= 0
      THEN _log(_log(log_text, <<"SUCCESS", t, 0>>, "SUCCESS", "bg"),
                <<"Output saved", t, 0>>, "INFO", "bg")
      ELSE _log(log_text, <<"exit code", t, rc>>, "ERROR", "bg")

\* Lines 583-587: the terminal entry for return code rc.
report(t, rc) ==
    IF rc = 0
      THEN _log(_log(log_text, <<"SUCCESS", t, 0>>, "SUCCESS", "bg"),
                <<"Output saved", t, 0>>, "INFO", "bg")
      ELSE _log(log_text, <<"exit code", t, rc>>, "ERROR", "bg")

\* Lines 581-587: self.current_process.wait() blocks until the process has exited.
worker_wait(t) ==
    /\ threads[t] = "wait"
    /\ IF current_process = 0
         THEN except(t)
         ELSE /\ procs[current_process].st = "exited"
              /\ log_text' = report(t, procs[current_process].code)
              /\ Goto(t, "finally_progress")
    /\ UNCHANGED <<worker_thread, current_process, convert_btn, stop_btn, progress,
                   procs, fg, base_dir, abandoned, disk, call>>

\* Line 593: self.progress.stop()
finally_progress(t) ==
    /\ threads[t] = "finally_progress"
    /\ progress' = "stopped"
    /\ Goto(t, "finally_convert")
    /\ UNCHANGED <<worker_thread, current_process, convert_btn, stop_btn, log_text,
                   procs, fg, base_dir, abandoned, disk, call>>

\* finally leaving the Convert button as it is.
finally_convert_Skipped(t) ==
    /\ threads[t] = "finally_convert"
    /\ Goto(t, "finally_stop")
    /\ UNCHANGED <<worker_thread, current_process, convert_btn, stop_btn, progress,
                   log_text, procs, fg, base_dir, abandoned, disk, call>>

\* Line 594: self.convert_btn.configure(state=NORMAL)
finally_convert(t) ==
    /\ threads[t] = "finally_convert"
    /\ convert_btn' = NORMAL
    /\ Goto(t, "finally_stop")
    /\ UNCHANGED <<worker_thread, current_process, stop_btn, progress, log_text,
                   procs, fg, base_dir, abandoned, disk, call>>

\* Line 595: self.stop_btn.configure(state=DISABLED)
finally_stop(t) ==
    /\ threads[t] = "finally_stop"
    /\ stop_btn' = DISABLED
    /\ Goto(t, "finally_clear")
    /\ UNCHANGED <<worker_thread, current_process, convert_btn, progress, log_text,
                   procs, fg, base_dir, abandoned, disk, call>>

\* Line 596: self.current_process = None
finally_clear(t) ==
    /\ threads[t] = "finally_clear"
    /\ current_process' = 0
    /\ Goto(t, "finally_log")
    /\ UNCHANGED <<worker_thread, convert_btn, stop_btn, progress, log_text,
                   procs, fg, base_dir, abandoned, disk, call>>

\* Line 597: self._log("=" * 80); then worker() returns and the thread ends.
finally_log(t) ==
    /\ threads[t] = "finally_log"
    /\ log_text' = _log(log_text, Sep, "INFO", "bg")
    /\ Goto(t, "dead")
    /\ UNCHANGED <<worker_thread, current_process, convert_btn, stop_btn, progress,
                   procs, fg, base_dir, abandoned, disk, call>>

worker(t) ==
    \/ worker_Popen(t)
    \/ worker_store(t)
    \/ worker_read(t)
    \/ worker_wait(t)
    \/ finally_progress(t)
    \/ finally_convert(t)
    \/ finally_stop(t)
    \/ finally_clear(t)
    \/ finally_log(t)

----------------------------------------------------------------------------
\* The external process p: `python -m mlx_lm convert ...` with stderr merged
\* into stdout (lines 567-575).

NotProcs == <<worker_thread, current_process, convert_btn, stop_btn, progress,
              log_text, threads, fg, base_dir, abandoned, disk, call>>

\* The process writes one more line to the pipe.
ProcEmit(p) ==
    /\ procs[p].st = "running"
    /\ procs[p].emitted < MaxLines
    /\ procs' = [procs EXCEPT ![p].emitted = @ + 1]
    /\ UNCHANGED NotProcs

\* The process closes its output before it exits: the reader sees the end of
\* the stream while the process is still alive.
ProcClose(p) ==
    /\ procs[p].st = "running"
    /\ procs' = [procs EXCEPT ![p].st = "closed"]
    /\ UNCHANGED NotProcs

\* The process exits with a code; after SIGTERM the code may be -15.
ProcExit(p) ==
    /\ procs[p].st \in {"running", "closed"}
    /\ \E rc \in (IF procs[p].term THEN TermCodes ELSE ExitCodes) :
          procs' = [procs EXCEPT ![p].st = "exited", ![p].code = rc]
    /\ UNCHANGED NotProcs

process(p) == ProcEmit(p) \/ ProcClose(p) \/ ProcExit(p)

\* The last process of the tasks cleared from the log exits.
AbandonedExit ==
    /\ abandoned
    /\ abandoned' = FALSE
    /\ UNCHANGED <<worker_thread, current_process, convert_btn, stop_btn, progress,
                   log_text, threads, procs, fg, base_dir, disk, call>>

----------------------------------------------------------------------------
Next ==
    \/ ClickConvert
    \/ DismissDialog
    \/ _clear_log
    \/ ClickStop
    \/ stop_poll
    \/ stop_terminate
    \/ stop_log
    \/ stop_end
    \/ \E t \in Tasks : worker(t)
    \/ \E p \in Tasks : process(p)
    \/ AbandonedExit

Spec == Init /\ [][Next]_vars

\* The worker threads are scheduled, and a process that was sent SIGTERM exits.
CancelSpec ==
    /\ Spec
    /\ \A t \in Tasks : WF_vars(worker(t))
    /\ \A p \in Tasks : WF_vars(procs[p].term /\ ProcExit(p))

\* The worker threads are scheduled, and every external process exits.
LiveSpec ==
    /\ Spec
    /\ \A t \in Tasks : WF_vars(worker(t))
    /\ \A p \in Tasks : WF_vars(ProcExit(p))

----------------------------------------------------------------------------
\* What the claims speak about.

Alive == {t \in Tasks : threads[t] \notin {"none", "dead"}}

\* Everything but the foreground's own position.
Shared == <<worker_thread, current_process, convert_btn, stop_btn, progress,
            log_text, threads, procs, base_dir, abandoned, disk, call>>

\* Positions in the log of the line callbacks and of the terminal reports of task t.
LineAt(t) == {i \in DOMAIN log_text : log_text[i].msg[1] = "line" /\ log_text[i].msg[2] = t}
DoneAt(t) == {i \in DOMAIN log_text : /\ log_text[i].level \in {"SUCCESS", "ERROR"}
                                      /\ log_text[i].msg[2] = t}

\* C1: a Convert click while a worker thread is alive opens the "Already
\* Running" box and changes nothing else: no log entry (no command logged), no
\* base directory, no thread, no process, and current_process, the buttons and
\* the progress bar as they were.
C1_AlreadyRunningRejected ==
    [][(ClickConvert /\ Alive # {}) =>
           /\ fg'.pc = "dialog"
           /\ fg'.dialog = "Already Running"
           /\ UNCHANGED Shared]_vars

C1_Witness ==
    /\ fg.pc = "dialog"
    /\ fg.dialog = "Already Running"
    /\ Alive # {}
    /\ current_process # 0

\* C2: at most one worker thread is alive and at most one external process is
\* live at any time.
C2_SingleSlot ==
    /\ Cardinality(Alive) <= 1
    /\ Cardinality(LiveProcs) + (IF abandoned THEN 1 ELSE 0) <= 1

\* C3: for every launched task the line callbacks are the emitted lines, once
\* each and in emission order; the terminal report is issued at most once, only
\* once the process has exited and every emitted line has been delivered, and
\* no line callback follows it.
C3_LinesThenDone ==
    \A t \in Tasks :
        procs[t].st # "none" =>
            /\ \A i \in LineAt(t) :
                   log_text[i].msg[3] = Cardinality({j \in LineAt(t) : j <= i})
            /\ Cardinality(LineAt(t)) <= procs[t].emitted
            /\ Cardinality(DoneAt(t)) <= 1
            /\ \A d \in DoneAt(t) :
                   /\ procs[t].st = "exited"
                   /\ Cardinality(LineAt(t)) = procs[t].emitted
                   /\ \A i \in LineAt(t) : i < d

\* C10: every mutation of the log widget is made by the foreground context.
C10_ForegroundOnly ==
    \A i \in DOMAIN log_text : log_text[i].ctx = "fg"

\* The worker of task t went past Popen without a process: Popen raised.
SpawnFailed(t) == threads[t] \notin {"none", "Popen"} /\ procs[t].st = "none"

SlotIdle ==
    /\ current_process = 0
    /\ convert_btn = NORMAL
    /\ stop_btn = DISABLED
    /\ progress = "stopped"

\* C4 (as claimed): when Popen fails no line callback and no terminal report is
\* made, no worker exists and the controls are in their idle state.
C4_LaunchErrorSynchronous ==
    \A t \in Tasks :
        SpawnFailed(t) =>
            /\ LineAt(t) = {}
            /\ DoneAt(t) = {}
            /\ t \notin Alive
            /\ SlotIdle

\* C4 (amended): when Popen fails, the worker thread, which holds the slot
\* (Convert disabled, Stop enabled, progress running) when it catches the
\* exception, reports it as exactly one ERROR entry from the worker context and
\* no line callback; once that worker has ended the slot is idle again.
C4_LaunchErrorFromWorker ==
    \A t \in Tasks :
        SpawnFailed(t) =>
            /\ LineAt(t) = {}
            /\ Cardinality(DoneAt(t)) = 1
            /\ \A d \in DoneAt(t) :
                   /\ log_text[d].msg[1] = "exception"
                   /\ log_text[d].level = "ERROR"
                   /\ log_text[d].ctx = "bg"
            /\ (threads[t] = "finally_progress" =>
                   convert_btn = DISABLED /\ stop_btn = NORMAL /\ progress = "running")
            /\ (threads[t] = "dead" /\ Alive = {} => SlotIdle)

C4_Witness ==
    \E t \in Tasks : SpawnFailed(t) /\ threads[t] = "dead" /\ SlotIdle

Kinds(lg) == [i \in DOMAIN lg |-> lg[i].msg[1]]

\* C5: a dry-run submission that passes validation appends exactly the entries
\* separator, start, command line, dry-run notice, separator to the log, all
\* from the foreground, and changes neither worker_thread, current_process, the
\* buttons, the progress bar, the threads nor the processes.
C5_DryRunSpawnsNothing ==
    [][\A src \in Sources, ok \in BOOLEAN :
          (/\ fg.pc = "idle"
           /\ convert_btn = NORMAL
           /\ _run_conversion(src, TRUE, ok)
           /\ fg'.pc = "idle") =>
              /\ Len(log_text') = Len(log_text) + 5
              /\ SubSeq(log_text', 1, Len(log_text)) = log_text
              /\ Kinds(SubSeq(log_text', Len(log_text) + 1, Len(log_text'))) =
                     <<"sep", "Starting", "Command", "DRY RUN", "sep">>
              /\ \A i \in (Len(log_text) + 1)..Len(log_text') : log_text'[i].ctx = "fg"
              /\ UNCHANGED <<worker_thread, current_process, convert_btn, stop_btn,
                             progress, threads, procs, fg>>]_vars

C5_Witness ==
    /\ Count(log_text, "DRY RUN") = 1
    /\ Count(log_text, "Command") = 1
    /\ \A t \in Tasks : threads[t] = "none" /\ procs[t].st = "none"
    /\ worker_thread = 0
    /\ SlotIdle

\* C8 (as claimed): the terminal report of every launched process is decided by
\* its exit code alone: SUCCESS for code 0, ERROR with the same code otherwise.
C8_ExitCodeAlone ==
    \A t \in Tasks :
        procs[t].st # "none" =>
            \A d \in DoneAt(t) :
                /\ procs[t].st = "exited"
                /\ IF procs[t].code = 0
                     THEN log_text[d].msg[1] = "SUCCESS"
                     ELSE log_text[d].msg = <<"exit code", t, procs[t].code>>

\* C8 (amended): every terminal report made from a return code agrees with the
\* exit code of the task's process: a SUCCESS entry means the process exited
\* with code 0, an exit-code ERROR entry carries the non-zero code the process
\* exited with, also when the process had been sent SIGTERM; the only other
\* terminal report is the ERROR entry of a caught exception.
C8_ReportMatchesExitCode ==
    \A t \in Tasks :
        \A d \in DoneAt(t) :
            \/ /\ log_text[d].msg[1] = "SUCCESS"
               /\ log_text[d].level = "SUCCESS"
               /\ procs[t].st = "exited"
               /\ procs[t].code = 0
            \/ /\ log_text[d].msg[1] = "exit code"
               /\ log_text[d].level = "ERROR"
               /\ procs[t].st = "exited"
               /\ procs[t].code # 0
               /\ log_text[d].msg[3] = procs[t].code
            \/ /\ log_text[d].msg[1] = "exception"
               /\ log_text[d].level = "ERROR"

C8_Witness ==
    \E t \in Tasks :
        /\ procs[t].term
        /\ procs[t].st = "exited"
        /\ procs[t].code = -15
        /\ \E d \in DoneAt(t) : log_text[d].msg = <<"exit code", t, -15>>

\* The submissions C9 is about: the stripped source is empty or ends in .nemo,
\* or the base directory cannot be created.
Rejected(src, ok) ==
    \/ Strip(src) = <<>>
    \/ EndsWith(Strip(src), NemoExt)
    \/ ~ok

RejectionBox(src) ==
    IF Strip(src) = <<>> THEN "No Source"
    ELSE IF EndsWith(Strip(src), NemoExt) THEN "NeMo Files"
    ELSE "Base Directory Error"

\* C9: a Convert click with an empty source, a .nemo source or a base directory
\* that cannot be created only opens the messagebox of that error (with no
\* worker alive) and changes nothing else; dismissing a box, the NeMo preview
\* included, adds no command line to the log and changes no thread, process,
\* button, progress bar or directory.
C9_RejectedBeforeSubmit ==
    [][/\ \A src \in Sources, dry \in BOOLEAN, ok \in BOOLEAN :
             (/\ fg.pc = "idle"
              /\ convert_btn = NORMAL
              /\ _run_conversion(src, dry, ok)
              /\ Rejected(src, ok)) =>
                 /\ fg'.pc = "dialog"
                 /\ (Alive = {} => fg'.dialog = RejectionBox(src))
                 /\ UNCHANGED Shared
       /\ DismissDialog =>
             /\ Count(log_text', "Command") = Count(log_text, "Command")
             /\ UNCHANGED <<worker_thread, current_process, convert_btn, stop_btn,
                            progress, threads, procs, base_dir, abandoned, disk, call>>]_vars

C9_Witness ==
    /\ Count(log_text, "NeMo title") = 1
    /\ Count(log_text, "Command") = 0
    /\ fg.pc = "idle"
    /\ \A t \in Tasks : threads[t] = "none"
    /\ SlotIdle

\* C6: a Stop click that finds no process reference changes nothing but the
\* handler's own position and returns; the terminate call of a Stop click on a
\* process that has not exited marks it as sent SIGTERM and does not end it;
\* and, the process exiting after SIGTERM and the worker being scheduled, every
\* process sent SIGTERM leads to exactly one terminal report for its task,
\* never more than one.
C6_Cancel ==
    /\ [][/\ (ClickStop /\ current_process = 0) =>
                 fg'.pc = "stop_return" /\ UNCHANGED Shared
          /\ (fg.pc = "stop_return" /\ fg'.pc # "stop_return") =>
                 fg'.pc = "idle" /\ UNCHANGED Shared
          /\ (/\ fg.pc = "stop_terminate"
              /\ fg'.pc # "stop_terminate"
              /\ current_process # 0
              /\ procs[current_process].st # "exited") =>
                 /\ procs'[current_process].term
                 /\ procs'[current_process].st = procs[current_process].st]_vars
    /\ [](\A p \in Tasks : Cardinality(DoneAt(p)) <= 1)
    /\ \A p \in Tasks : procs[p].term ~> (Cardinality(DoneAt(p)) = 1)

C6_Witness ==
    \E p \in Tasks :
        /\ procs[p].term
        /\ procs[p].st = "exited"
        /\ Count(log_text, "Stopping") = 1
        /\ Cardinality(DoneAt(p)) = 1
        /\ \E d \in DoneAt(p) : log_text[d].msg = <<"exit code", p, procs[p].code>>
        /\ threads[p] = "dead"

\* A Convert click that starts a worker.
StartedSubmit ==
    ClickConvert /\ \E t \in Tasks : threads[t] = "none" /\ threads'[t] = "Popen"

\* C7: the worker threads being scheduled and the external process exiting,
\* every worker that is alive ends with a terminal entry for its task in the
\* log, the process reference cleared, Convert enabled, Stop disabled and the
\* progress bar stopped; whenever no worker is alive the slot is in that idle
\* state, and a valid submission is then accepted.
C7_SlotReleased ==
    /\ \A t \in Tasks :
           (t \in Alive) ~> (/\ threads[t] = "dead"
                             /\ DoneAt(t) # {}
                             /\ Alive = {}
                             /\ SlotIdle)
    /\ [](Alive = {} => SlotIdle)
    /\ []((Alive = {} /\ fg.pc = "idle" /\ LogSubmits < MaxSubmits) => ENABLED StartedSubmit)

C7_Witness ==
    /\ abandoned
    /\ \E t \in Tasks : threads[t] = "dead" /\ DoneAt(t) # {}
    /\ SlotIdle

----------------------------------------------------------------------------
\* The command builder's claims, checked under PathSpec.

\* base/name as the claim writes it: the base without a trailing separator,
\* a separator, the model name.
Candidate(c) ==
    LET base == IF c.base[Len(c.base)] = Separator
                  THEN SubSeq(c.base, 1, Len(c.base) - 1) ELSE c.base
    IN  base \o <<Separator>> \o model_name(c.source_path, c.source_type)

\* base/name_vK
Version(c, K) == Candidate(c) \o <<"_", "v", Digits[K + 1]>>

\* The version numbers K >= 1 whose path does not exist.
FreeVersions(c) == {K \in 1..(MaxEntries + 1) : ~exists(Version(c, K))}

\* C11: with timestamping off, _generate_output_path returns base/name when it
\* does not exist, and otherwise base/name_vK for the smallest K >= 1 whose
\* path does not exist, the suffix appended to the original candidate; the
\* path returned does not exist.
C11_UniqueOutputPath ==
    (call.fn = "generate" /\ ~call.auto_timestamp) =>
        /\ ~exists(call.ret)
        /\ IF ~exists(Candidate(call))
             THEN call.ret = Candidate(call)
             ELSE \E K \in FreeVersions(call) :
                      /\ \A J \in FreeVersions(call) : K <= J
                      /\ call.ret = Version(call, K)

\* base/name and base/name_v1 exist and base/name_v2 is returned.
C11_Witness ==
    /\ call.fn = "generate"
    /\ ~call.auto_timestamp
    /\ exists(Candidate(call))
    /\ exists(Version(call, 1))
    /\ call.ret = Version(call, 2)

\* The kind the claim's four rules, taken in order, give the path p.
Classified(p) ==
    IF HasSeparator(p) /\ ~exists(p) THEN "hf"
    ELSE IF exists(p) /\ disk[p] = "dir" THEN "local"
    ELSE IF exists(p) /\ \E e \in Extensions : EndsWith(p, e) THEN "file"
    ELSE "hf"

----------------------------------------------------------------------------
\* The Stop handler against the worker, checked under Spec.

\* C13: _stop_conversion never calls poll() or terminate() on a
\* current_process that the worker has set to None since the handler's check.
C13_NoNullDereference == fg.pc # "stop_raise"

\* The workers that are launching: started, the process handle not yet in
\* current_process.
Launching == {t \in Tasks : threads[t] \in {"Popen", "store"}}

\* C14: a Stop click while a worker is launching is not dropped: the handler
\* does not return without having asked for anything.
C14_CancelDuringLaunch ==
    [][(ClickStop /\ Launching # {}) => fg'.pc # "stop_return"]_vars

\* C15: the Convert button is enabled exactly when no worker thread is alive
\* (a submit would pass the check of line 508), and the Stop button exactly
\* when one is.
C15_ControlsAgree ==
    /\ (convert_btn = NORMAL) <=> ~AlreadyRunning
    /\ (stop_btn = NORMAL) <=> (Alive # {})
====
